---- MODULE Spec2Model ----
(***************************************************************************)
(* Model of package csrf (src/csrf.go): the DefaultTokenProvider token     *)
(* store (Get, Check, the gc goroutine) and CSRF.Validate on top of it.    *)
(*                                                                         *)
(* Time is counted in ticks of 1/TicksPerSec second, so that the           *)
(* truncation done by time.Time.Unix() (whole seconds) is visible.         *)
(* A time.Duration (token_ttl) is a number of ticks.                       *)
(***************************************************************************)
EXTENDS Integers, Sequences, FiniteSets, TLC

\* ---- bounds of the model ----
TicksPerSec == 2
MaxTime == 2
MaxTTL == 2
MaxSources == 3

\* the goroutines that call Get / Check / Validate
Procs == {"p1", "p2"}
\* the strings uuid.NewRandom().String() can yield in the model
Tokens == {"abc", "xyz"}
\* what a TokenSourceFunc can return: a token string or the empty string
Strings == Tokens \cup {""}

\* ---- error values ----
Nil == "nil"
ErrInvalidToken == "invalid token"
errInconsistentTokenBetweenSources == "inconsistent token between sources"
Panic == "panic"

VARIABLES
    tokens,        \* dtp.tokens: map[string]int64, token -> expire_at (Unix seconds)
    mu,            \* dtp.mu: "" when free, else the holder
    token_ttl,     \* dtp.token_ttl (ticks)
    now,           \* the wall clock read by time.Now() (ticks)
    cancelled,     \* ctx.Done() of the context given to the constructor is closed
    tickerC,       \* a tick is pending in ticker.C (channel of capacity 1)
    gc_pc,         \* position of the gc goroutine
    current_time,  \* gc's local current_time
    call,          \* per goroutine: position, operation, arguments, result
    issuedAt,      \* history: token -> tick at which Get stored it
    checked,       \* history: tokens for which some Check returned nil
    validated      \* history: tokens for which some Validate returned nil

vars == <<tokens, mu, token_ttl, now, cancelled, tickerC, gc_pc, current_time,
          call, issuedAt, checked, validated>>

\* time.Time.Unix(): whole seconds
Unix(t) == t \div TicksPerSec

\* make(map[string]int64)
EmptyMap == [t \in {} |-> 0]

\* m[k] = v
Put(m, k, v) == [t \in DOMAIN m \cup {k} |-> IF t = k THEN v ELSE m[t]]

\* a goroutine that is in no call and has made none yet
\*   pc: position; op: the exported function called; tok: the token argument
\*   (Check), the token generated (Get) or the reconciled token (Validate);
\*   res: the value the call returned; chk: the call reached
\*   TokenProvider.Check; srcs: what the sources of a Validate call yield;
\*   peer: the goroutines that were inside Check of the same token when this
\*   call's Check returned; used / usedV: when this call entered Check, a
\*   Check / a Validate of the same token had already returned nil;
\*   mw: the call is made by the handler of ValidateMiddleware, and for that
\*   request: nsrcs the number of sources, vcalls the number of calls of
\*   Validate, herr the errors handle_err was called with, nexts the number
\*   of calls of next.ServeHTTP
Idle == [pc |-> "idle", op |-> "none", tok |-> "", res |-> "none",
         chk |-> FALSE, srcs |-> <<>>, peer |-> {}, used |-> FALSE, usedV |-> FALSE,
         mw |-> FALSE, nsrcs |-> 0, vcalls |-> 0, herr |-> <<>>, nexts |-> 0]

\* the record of goroutine p's call as it goes on inside the same request
Within(p) == [Idle EXCEPT !.mw = call[p].mw, !.nsrcs = call[p].nsrcs,
                          !.vcalls = call[p].vcalls]

\* where goroutine p is after Validate or Check returns to its caller
Ret(p) == IF call[p].mw THEN "handle_err" ELSE "idle"

\* NewDefaultTokenProvider: an empty map, the gc goroutine started on a fresh
\* ticker. token_ttl is a field the constructor does not assign (its value
\* there is 0); code inside the package can set it, so its value is an input.
Init ==
    /\ tokens = EmptyMap
    /\ mu = ""
    /\ token_ttl \in 0..MaxTTL
    /\ now = 0
    /\ cancelled = FALSE
    /\ tickerC = FALSE
    /\ gc_pc = "select"
    /\ current_time = 0
    /\ call = [p \in Procs |-> Idle]
    /\ issuedAt = EmptyMap
    /\ checked = {}
    /\ validated = {}

\* ---------------------------------------------------------------- the clock
Tick ==
    /\ now < MaxTime
    /\ now' = now + 1
    /\ UNCHANGED <<tokens, mu, token_ttl, cancelled, tickerC, gc_pc, current_time,
                   call, issuedAt, checked, validated>>

\* the owner of the context cancels it
Cancel ==
    /\ ~cancelled
    /\ cancelled' = TRUE
    /\ UNCHANGED <<tokens, mu, token_ttl, now, tickerC, gc_pc, current_time,
                   call, issuedAt, checked, validated>>

\* the runtime delivers a tick into ticker.C (dropped when one is pending)
TickerFire ==
    /\ ~tickerC
    /\ tickerC' = TRUE
    /\ UNCHANGED <<tokens, mu, token_ttl, now, cancelled, gc_pc, current_time,
                   call, issuedAt, checked, validated>>

\* ---------------------------------------------------------------- gc
\* the cases of gc's select that are ready: Go picks any ready case
SelectReady == (IF cancelled THEN {"done"} ELSE {}) \cup (IF tickerC THEN {"tick"} ELSE {})

\* variant: the ctx_done case leaves the select only, not the function
GcSelectBreak ==
    /\ gc_pc = "select"
    /\ \E c \in SelectReady :
         IF c = "done"
         THEN gc_pc' = "now" /\ UNCHANGED tickerC
         ELSE gc_pc' = "now" /\ tickerC' = FALSE
    /\ UNCHANGED <<tokens, mu, token_ttl, now, cancelled, current_time,
                   call, issuedAt, checked, validated>>

GcSelect ==
    /\ gc_pc = "select"
    /\ \E c \in SelectReady :
         IF c = "done"
         THEN gc_pc' = "returned" /\ UNCHANGED tickerC
         ELSE gc_pc' = "now" /\ tickerC' = FALSE
    /\ UNCHANGED <<tokens, mu, token_ttl, now, cancelled, current_time,
                   call, issuedAt, checked, validated>>

\* current_time := time.Now()
GcNow ==
    /\ gc_pc = "now"
    /\ current_time' = now
    /\ gc_pc' = "lock"
    /\ UNCHANGED <<tokens, mu, token_ttl, now, cancelled, tickerC,
                   call, issuedAt, checked, validated>>

\* dtp.mu.Lock()
GcLock ==
    /\ gc_pc = "lock"
    /\ mu = ""
    /\ mu' = "gc"
    /\ gc_pc' = "sweep"
    /\ UNCHANGED <<tokens, token_ttl, now, cancelled, tickerC, current_time,
                   call, issuedAt, checked, validated>>

\* variant: an entry is swept one second before its expiry
SweepExpiredEarly(ct, expire_at) == ~(Unix(ct) + 1 < expire_at)

\* variant: an entry is swept only after the second of its expiry
SweepExpiredStrict(ct, expire_at) == Unix(ct) > expire_at

\* gc's test of one entry: !(current_time.Unix() < expire_at)
SweepExpired(ct, expire_at) == ~(Unix(ct) < expire_at)

\* the map after the range loop of one pass
Sweep(m, ct) ==
    [t \in {k \in DOMAIN m : ~SweepExpired(ct, m[k])} |-> m[t]]

\* variant: the pass ends without dtp.mu.Unlock()
GcSweepNoUnlock ==
    /\ gc_pc = "sweep"
    /\ tokens' = Sweep(tokens, current_time)
    /\ gc_pc' = "select"
    /\ current_time' = 0
    /\ UNCHANGED <<mu, token_ttl, now, cancelled, tickerC,
                   call, issuedAt, checked, validated>>

\* the range loop and dtp.mu.Unlock()
GcSweep ==
    /\ gc_pc = "sweep"
    /\ tokens' = Sweep(tokens, current_time)
    /\ mu' = ""
    /\ gc_pc' = "select"
    /\ current_time' = 0
    /\ UNCHANGED <<token_ttl, now, cancelled, tickerC,
                   call, issuedAt, checked, validated>>

\* ---------------------------------------------------------------- Get
\* tokens already produced by uuid.NewRandom (stored, or about to be)
Generated ==
    DOMAIN issuedAt \cup {call[q].tok : q \in {r \in Procs : call[r].op = "Get"}}

\* uuid.NewRandom(): a random UUID, taken to differ from every earlier one
GetCall(p) ==
    /\ call[p].pc = "idle"
    /\ \E uid \in Tokens \ Generated :
         call' = [call EXCEPT ![p] = [Idle EXCEPT !.pc = "get_lock", !.op = "Get",
                                                  !.tok = uid]]
    /\ UNCHANGED <<tokens, mu, token_ttl, now, cancelled, tickerC, gc_pc,
                   current_time, issuedAt, checked, validated>>

\* variant: Get goes on without waiting for the mutex to be free
GetLockNoWait(p) ==
    /\ call[p].pc = "get_lock"
    /\ mu' = p
    /\ call' = [call EXCEPT ![p].pc = "get_held"]
    /\ UNCHANGED <<tokens, token_ttl, now, cancelled, tickerC, gc_pc,
                   current_time, issuedAt, checked, validated>>

GetLock(p) ==
    /\ call[p].pc = "get_lock"
    /\ mu = ""
    /\ mu' = p
    /\ call' = [call EXCEPT ![p].pc = "get_held"]
    /\ UNCHANGED <<tokens, token_ttl, now, cancelled, tickerC, gc_pc,
                   current_time, issuedAt, checked, validated>>

\* time.Now().Add(dtp.token_ttl).Unix()
ExpireAt(t, ttl) == Unix(t + ttl)

\* dtp.tokens[token] = ...; return token, nil (with the deferred Unlock)
GetStore(p) ==
    /\ call[p].pc = "get_held"
    /\ tokens' = Put(tokens, call[p].tok, ExpireAt(now, token_ttl))
    /\ issuedAt' = Put(issuedAt, call[p].tok, now)
    /\ mu' = ""
    /\ call' = [call EXCEPT ![p].pc = "idle", ![p].res = Nil]
    /\ UNCHANGED <<token_ttl, now, cancelled, tickerC, gc_pc,
                   current_time, checked, validated>>

\* ---------------------------------------------------------------- Check
InCheck(q) == call[q].pc \in {"check_lock", "check_held"}

\* goroutine p enters TokenProvider.Check(token)
EnterCheck(p, op, token) ==
    call' = [call EXCEPT ![p] = [(IF op = "Validate" THEN Within(p) ELSE Idle)
                                   EXCEPT !.pc = "check_lock", !.op = op,
                                             !.tok = token, !.chk = TRUE,
                                             !.used = (token \in checked),
                                             !.usedV = (token \in validated)]]

CheckCall(p) ==
    /\ call[p].pc = "idle"
    /\ \E token \in Tokens : EnterCheck(p, "Check", token)
    /\ UNCHANGED <<tokens, mu, token_ttl, now, cancelled, tickerC, gc_pc,
                   current_time, issuedAt, checked, validated>>

CheckLock(p) ==
    /\ call[p].pc = "check_lock"
    /\ mu = ""
    /\ mu' = p
    /\ call' = [call EXCEPT ![p].pc = "check_held"]
    /\ UNCHANGED <<tokens, token_ttl, now, cancelled, tickerC, gc_pc,
                   current_time, issuedAt, checked, validated>>

\* variant: the expiry test with <= in place of <
UnexpiredLe(t, expire_at) == Unix(t) <= expire_at

\* time.Now().Unix() < expire_at
Unexpired(t, expire_at) == Unix(t) < expire_at

\* the value Check returns for token on map m at clock reading t
CheckResult(m, token, t) ==
    IF token \in DOMAIN m /\ Unexpired(t, m[token]) THEN Nil ELSE ErrInvalidToken

\* variant: Check deletes the entry it finds, expired or not
CheckTokensDeleteFound(m, token, t) == [k \in DOMAIN m \ {token} |-> m[k]]

\* the map Check leaves behind
CheckTokens(m, token, t) == m

\* the body of Check and its return (with the deferred Unlock)
CheckBody(p) ==
    /\ call[p].pc = "check_held"
    /\ LET r == CheckResult(tokens, call[p].tok, now)
           others == {q \in Procs \ {p} : InCheck(q) /\ call[q].tok = call[p].tok}
       IN /\ call' = [call EXCEPT ![p].pc = Ret(p), ![p].res = r, ![p].peer = others]
          /\ checked' = IF r = Nil THEN checked \cup {call[p].tok} ELSE checked
          /\ validated' = IF r = Nil /\ call[p].op = "Validate"
                          THEN validated \cup {call[p].tok} ELSE validated
    /\ tokens' = CheckTokens(tokens, call[p].tok, now)
    /\ mu' = ""
    /\ UNCHANGED <<token_ttl, now, cancelled, tickerC, gc_pc,
                   current_time, issuedAt>>

\* ---------------------------------------------------------------- Validate
\* goroutine p calls c.Validate(r, sources...); srcs[i] is what sources[i](r) yields
ValidateCall(p) ==
    /\ call[p].pc = "idle"
    /\ \E n \in 0..MaxSources : \E srcs \in [1..n -> Strings] :
         call' = [call EXCEPT ![p] = [Idle EXCEPT !.pc = "validate", !.op = "Validate",
                                                  !.srcs = srcs]]
    /\ UNCHANGED <<tokens, mu, token_ttl, now, cancelled, tickerC, gc_pc,
                   current_time, issuedAt, checked, validated>>

\* variant: the loop without its comparison, a differing source is passed over
RECURSIVE ReconcileSkip(_, _, _)
ReconcileSkip(srcs, i, token) ==
    IF i > Len(srcs) THEN [err |-> Nil, token |-> token]
    ELSE IF token = "" THEN ReconcileSkip(srcs, i + 1, srcs[i])
    ELSE ReconcileSkip(srcs, i + 1, token)

\* the loop over sources, from index i with the local token: the error it
\* returns, or the token it ends with
RECURSIVE Reconcile(_, _, _)
Reconcile(srcs, i, token) ==
    IF i > Len(srcs) THEN [err |-> Nil, token |-> token]
    ELSE IF token = "" THEN Reconcile(srcs, i + 1, srcs[i])
    ELSE IF token # srcs[i]
         THEN [err |-> errInconsistentTokenBetweenSources, token |-> token]
         ELSE Reconcile(srcs, i + 1, token)

\* variant: Validate without the test of len(sources)
ValidateOutcomeNoPanic(srcs) ==
    LET r == Reconcile(srcs, 1, "")
    IN IF r.err # Nil THEN [ret |-> r.err, token |-> r.token]
       ELSE IF r.token = "" THEN [ret |-> ErrInvalidToken, token |-> ""]
       ELSE [ret |-> "check", token |-> r.token]

\* variant: Validate without the test of an empty token before Check
ValidateOutcomeNoShortcut(srcs) ==
    IF Len(srcs) = 0 THEN [ret |-> Panic, token |-> ""]
    ELSE LET r == Reconcile(srcs, 1, "")
         IN IF r.err # Nil THEN [ret |-> r.err, token |-> r.token]
            ELSE [ret |-> "check", token |-> r.token]

\* what Validate does before the store is consulted: ret is the value it
\* returns by itself, or "check" when it goes on to TokenProvider.Check(token)
ValidateOutcome(srcs) ==
    IF Len(srcs) = 0 THEN [ret |-> Panic, token |-> ""]
    ELSE LET r == Reconcile(srcs, 1, "")
         IN IF r.err # Nil THEN [ret |-> r.err, token |-> r.token]
            ELSE IF r.token = "" THEN [ret |-> ErrInvalidToken, token |-> ""]
            ELSE [ret |-> "check", token |-> r.token]

\* Validate up to its return or its call of TokenProvider.Check
ValidateRun(p) ==
    /\ call[p].pc = "validate"
    /\ LET o == ValidateOutcome(call[p].srcs)
       IN IF o.ret = "check"
          THEN EnterCheck(p, "Validate", o.token)
          ELSE call' = [call EXCEPT ![p] =
                          [Within(p) EXCEPT !.op = "Validate", !.tok = o.token,
                                            !.res = o.ret,
                                            !.pc = IF o.ret = Panic THEN "idle" ELSE Ret(p)]]
    /\ UNCHANGED <<tokens, mu, token_ttl, now, cancelled, tickerC, gc_pc,
                   current_time, issuedAt, checked, validated>>

\* ---------------------------------------------------------------- ValidateMiddleware
\* the handler returned by ValidateMiddleware serves a request on goroutine p:
\* it calls c.Validate(r, sources...)
ServeHTTP(p) ==
    /\ call[p].pc = "idle"
    /\ \E n \in 0..MaxSources : \E srcs \in [1..n -> Strings] :
         call' = [call EXCEPT ![p] = [Idle EXCEPT !.pc = "validate", !.op = "Validate",
                                                  !.srcs = srcs, !.mw = TRUE,
                                                  !.nsrcs = n, !.vcalls = 1]]
    /\ UNCHANGED <<tokens, mu, token_ttl, now, cancelled, tickerC, gc_pc,
                   current_time, issuedAt, checked, validated>>

\* variant: the handler reports errors only and passes a valid request on to next
HandleErrOnlyErrors(p) ==
    /\ call[p].pc = "handle_err"
    /\ call' = [call EXCEPT ![p].pc = "idle",
                            ![p].herr = IF call[p].res = Nil THEN @ ELSE Append(@, call[p].res),
                            ![p].nexts = IF call[p].res = Nil THEN @ + 1 ELSE @]
    /\ UNCHANGED <<tokens, mu, token_ttl, now, cancelled, tickerC, gc_pc,
                   current_time, issuedAt, checked, validated>>

\* handle_err(w, r, <what Validate returned>), then the handler returns
HandleErr(p) ==
    /\ call[p].pc = "handle_err"
    /\ call' = [call EXCEPT ![p].pc = "idle", ![p].herr = Append(@, call[p].res)]
    /\ UNCHANGED <<tokens, mu, token_ttl, now, cancelled, tickerC, gc_pc,
                   current_time, issuedAt, checked, validated>>

\* ---------------------------------------------------------------- the program
Next ==
    \/ Tick
    \/ Cancel
    \/ TickerFire
    \/ GcSelect
    \/ GcNow
    \/ GcLock
    \/ GcSweep
    \/ \E p \in Procs : GetCall(p)
    \/ \E p \in Procs : GetLock(p)
    \/ \E p \in Procs : GetStore(p)
    \/ \E p \in Procs : CheckCall(p)
    \/ \E p \in Procs : CheckLock(p)
    \/ \E p \in Procs : CheckBody(p)

\* the token store under concurrent callers of Get and Check
Spec == Init /\ [][Next]_vars

\* a single calling goroutine
Solo == {"p1"}

\* the store, its context not cancelled, with a caller of Validate, Get and Check
NextValidate ==
    \/ Tick
    \/ TickerFire
    \/ GcSelect
    \/ GcNow
    \/ GcLock
    \/ GcSweep
    \/ \E p \in Solo : GetCall(p)
    \/ \E p \in Solo : GetLock(p)
    \/ \E p \in Solo : GetStore(p)
    \/ \E p \in Solo : CheckCall(p)
    \/ \E p \in Solo : CheckLock(p)
    \/ \E p \in Solo : CheckBody(p)
    \/ \E p \in Solo : ValidateCall(p)
    \/ \E p \in Solo : ValidateRun(p)

SpecValidate == Init /\ [][NextValidate]_vars

\* the store with one caller of Get and Check
NextSweep ==
    \/ Tick
    \/ Cancel
    \/ TickerFire
    \/ GcSelect
    \/ GcNow
    \/ GcLock
    \/ GcSweep
    \/ \E p \in Solo : GetCall(p)
    \/ \E p \in Solo : GetLock(p)
    \/ \E p \in Solo : GetStore(p)
    \/ \E p \in Solo : CheckCall(p)
    \/ \E p \in Solo : CheckLock(p)
    \/ \E p \in Solo : CheckBody(p)

\* Scheduling: the ticker keeps delivering ticks; the gc goroutine is not
\* starved by the scheduler; a goroutine that holds the mutex gets to its
\* Unlock; sync.Mutex hands the lock to a waiter that keeps failing to take
\* it (starvation mode), hence strong fairness for gc's Lock.
FairSpec ==
    /\ Init /\ [][NextSweep]_vars
    /\ WF_vars(TickerFire)
    /\ WF_vars(GcSelect)
    /\ WF_vars(GcNow)
    /\ SF_vars(GcLock)
    /\ WF_vars(GcSweep)
    /\ WF_vars(\E p \in Solo : GetStore(p))
    /\ WF_vars(\E p \in Solo : CheckBody(p))

TypeOK ==
    /\ DOMAIN tokens \subseteq Tokens
    /\ mu \in Procs \cup {"", "gc"}
    /\ now \in 0..MaxTime

\* the store, its context not cancelled, with a goroutine that issues tokens
\* and serves requests through the handler of ValidateMiddleware
NextMiddleware ==
    \/ Tick
    \/ TickerFire
    \/ GcSelect
    \/ GcNow
    \/ GcLock
    \/ GcSweep
    \/ \E p \in Solo : GetCall(p)
    \/ \E p \in Solo : GetLock(p)
    \/ \E p \in Solo : GetStore(p)
    \/ \E p \in Solo : ServeHTTP(p)
    \/ \E p \in Solo : ValidateRun(p)
    \/ \E p \in Solo : CheckLock(p)
    \/ \E p \in Solo : CheckBody(p)
    \/ \E p \in Solo : HandleErr(p)

SpecMiddleware == Init /\ [][NextMiddleware]_vars

\* gc's select takes the ctx_done case
GcReturn == GcSelect /\ gc_pc' = "returned"

\* FairSpec, and a select that again and again finds ctx_done ready takes
\* that case at some time: Go chooses among the ready cases of a select
\* uniformly at random.
FairSpecExit ==
    /\ FairSpec
    /\ SF_vars(GcReturn)

\* ================================================================ properties
\* goroutine p's Check returns in this step
CheckReturns(p) == call[p].pc = "check_held" /\ call'[p].pc = "idle"

\* goroutine p's Validate evaluates its sources in this step
ValidateRuns(p) == call[p].pc = "validate" /\ call'[p].pc # "validate"

\* the instant, in ticks, at which the time to live of stored token t has elapsed
Deadline(t) == issuedAt[t] + token_ttl

\* C1: single use. A Check(t) that starts after some Check(t) has returned nil
\* returns ErrInvalidToken.
SingleUse ==
    [][\A p \in Procs :
         (CheckReturns(p) /\ call[p].used) => call'[p].res = ErrInvalidToken]_vars

\* C2: concurrent consumption. Of two overlapping Check(t) calls on a stored
\* token that was not consumed when they started and that is unexpired by its
\* stored expire_at when the second one returns, exactly one returns nil.
ConcurrentConsumption ==
    [][\A p \in Procs : \A q \in Procs \ {p} :
         ( /\ CheckReturns(p)
           /\ call[q].pc = "idle" /\ call[q].chk /\ call[q].tok = call[p].tok
           /\ p \in call[q].peer
           /\ ~call[p].used /\ ~call[q].used
           /\ call[p].tok \in DOMAIN tokens
           /\ Unix(now) < tokens[call[p].tok] )
         => ((call[q].res = Nil) # (call'[p].res = Nil))]_vars

\* C3: valid before expiry. The first Check(t) made at a time s with
\* T <= s < T + token_ttl, T the time Get stored t, returns nil.
ValidBeforeExpiry ==
    [][\A p \in Procs :
         ( /\ CheckReturns(p)
           /\ call[p].tok \in DOMAIN issuedAt
           /\ call[p].tok \notin checked
           /\ now < Deadline(call[p].tok) )
         => call'[p].res = Nil]_vars

\* C4: expiry. A Check(t) made at a time s >= T + token_ttl returns
\* ErrInvalidToken, the entry still being in the map or not.
Expiry ==
    [][\A p \in Procs :
         ( /\ CheckReturns(p)
           /\ call[p].tok \in DOMAIN issuedAt
           /\ now >= Deadline(call[p].tok) )
         => call'[p].res = ErrInvalidToken]_vars

\* a Check of a token with a positive time to live has returned
\* ErrInvalidToken although the entry is in the map (no sweep removed it):
\* the entry was found, so the clock reading s had Unix(s) >= expire_at, and
\* with the deadline on a whole second that is s >= T + token_ttl
ExpiryWitness ==
    \E p \in Procs :
        /\ call[p].pc = "idle" /\ call[p].op = "Check"
        /\ call[p].res = ErrInvalidToken
        /\ call[p].tok \in DOMAIN tokens
        /\ token_ttl > 0
        /\ Deadline(call[p].tok) % TicksPerSec = 0

\* C5: a successful Validate consumes the token. A Validate whose sources
\* reconcile to t, made after a Validate of t returned nil, returns
\* ErrInvalidToken.
ValidateConsumes ==
    [][\A p \in Procs :
         (CheckReturns(p) /\ call[p].op = "Validate" /\ call[p].usedV)
         => call'[p].res = ErrInvalidToken]_vars

\* the sources yield at least one non-empty value and all non-empty ones are v
Agreeing(srcs, v) ==
    /\ \E i \in 1..Len(srcs) : srcs[i] = v
    /\ \A i \in 1..Len(srcs) : srcs[i] \in {"", v}

\* two sources yield different non-empty values
Conflicting(srcs) ==
    \E i, j \in 1..Len(srcs) : srcs[i] # "" /\ srcs[j] # "" /\ srcs[i] # srcs[j]

\* C6: reconciliation. When all non-empty source results equal v (empty ones
\* at any position), Validate does not return the inconsistency error: it
\* calls TokenProvider.Check(v).
Reconciliation ==
    [][\A p \in Procs : \A v \in Tokens :
         (ValidateRuns(p) /\ Agreeing(call[p].srcs, v))
         => (call'[p].pc = "check_lock" /\ call'[p].tok = v)]_vars

\* C7: inconsistent sources. When two sources yield different non-empty
\* values, Validate returns the inconsistency error, a value other than
\* ErrInvalidToken, without calling Check and without changing the store.
InconsistentSources ==
    [][\A p \in Procs :
         (ValidateRuns(p) /\ Conflicting(call[p].srcs))
         => /\ call'[p].pc = "idle"
            /\ call'[p].res = errInconsistentTokenBetweenSources
            /\ call'[p].res # ErrInvalidToken
            /\ ~call'[p].chk
            /\ tokens' = tokens /\ mu' = mu]_vars

\* a Validate has returned the inconsistency error while the token its first
\* non-empty source gave is in the store
InconsistentSourcesWitness ==
    \E p \in Procs :
        /\ call[p].pc = "idle" /\ call[p].op = "Validate"
        /\ call[p].res = errInconsistentTokenBetweenSources
        /\ call[p].tok \in DOMAIN tokens

\* C8: all-empty short-circuit. When every one of the (one or more) sources
\* yields "", Validate returns ErrInvalidToken without calling Check, the
\* store unchanged.
AllEmptyShortCircuit ==
    [][\A p \in Procs :
         ( /\ ValidateRuns(p)
           /\ Len(call[p].srcs) > 0
           /\ \A i \in 1..Len(call[p].srcs) : call[p].srcs[i] = "" )
         => /\ call'[p].pc = "idle"
            /\ call'[p].res = ErrInvalidToken
            /\ ~call'[p].chk
            /\ tokens' = tokens /\ mu' = mu]_vars

\* a Validate has returned ErrInvalidToken without having called Check,
\* while the store holds a token
AllEmptyShortCircuitWitness ==
    \E p \in Procs :
        /\ call[p].pc = "idle" /\ call[p].op = "Validate"
        /\ call[p].res = ErrInvalidToken /\ ~call[p].chk
        /\ DOMAIN tokens # {}

\* C10 as stated: once the context is cancelled no sweep pass starts, even
\* with a tick pending.
NoSweepStartsAfterCancel ==
    [][cancelled => ~(gc_pc = "select" /\ gc_pc' = "now")]_vars

\* C10 as amended: a select that finds the context cancelled and no tick
\* pending returns, and once gc has returned no pass starts and no entry
\* leaves the map.
NoSweepAfterGcReturned ==
    [][ /\ (cancelled /\ ~tickerC /\ gc_pc = "select" /\ gc_pc' # "select")
           => gc_pc' = "returned"
        /\ gc_pc = "returned"
           => (gc_pc' = "returned" /\ DOMAIN tokens \subseteq DOMAIN tokens')]_vars

\* gc has returned and an entry that a sweep would remove is in the map
NoSweepAfterGcReturnedWitness ==
    /\ gc_pc = "returned"
    /\ \E t \in DOMAIN tokens : Unix(now) >= tokens[t]

\* C9: reclamation. Unless the context is cancelled, an entry whose
\* expire_at has passed is eventually removed from the map (so a map whose
\* entries have all expired becomes empty when nothing is issued), and a
\* sweep pass whose clock reading is at or past an entry's expire_at removes it.
Reclamation ==
    /\ \A t \in Tokens :
          (t \in DOMAIN tokens /\ Unix(now) >= tokens[t])
              ~> (t \notin DOMAIN tokens \/ cancelled)
    /\ [][\A t \in DOMAIN tokens :
            (gc_pc = "sweep" /\ gc_pc' = "select" /\ Unix(current_time) >= tokens[t])
            => t \notin DOMAIN tokens']_vars

\* every token was issued, the context is not cancelled and sweeps have
\* emptied the map
ReclamationWitness ==
    /\ DOMAIN issuedAt = Tokens
    /\ tokens = EmptyMap
    /\ ~cancelled

\* the map of the run in which the context is cancelled before the first
\* tick and gc returns at once: every token stored so far, none swept
Unswept == [t \in DOMAIN issuedAt |-> ExpireAt(issuedAt[t], token_ttl)]

\* C11: teardown does not change outcomes. Every Get returns nil and every
\* Check returns what it returns, for the same calls and clock readings, in
\* the run where gc never sweeps (cancelled at once): the results are a
\* function of the calls and clock readings alone, so two runs that differ
\* only in the cancellation return the same results.
TeardownIndependent ==
    [][\A p \in Procs :
         /\ CheckReturns(p) => call'[p].res = CheckResult(Unswept, call[p].tok, now)
         /\ (call[p].pc = "get_held" /\ call'[p].pc = "idle") => call'[p].res = Nil]_vars

\* the context is cancelled, a sweep has removed a stored token and a Check
\* of that token has returned
TeardownIndependentWitness ==
    /\ cancelled
    /\ \E p \in Procs :
         /\ call[p].pc = "idle" /\ call[p].op = "Check"
         /\ call[p].tok \in DOMAIN issuedAt
         /\ call[p].tok \notin DOMAIN tokens

\* C13: configuration. The time to live is positive, and every stored token
\* has an expire_at (whole seconds) strictly after the instant T at which Get
\* stored it.
PositiveTTL ==
    \A t \in DOMAIN tokens :
        /\ token_ttl > 0
        /\ tokens[t] * TicksPerSec > issuedAt[t]

\* C14: zero sources. Validate called with no source panics: it returns no
\* error value, does not call Check and leaves the store as it is.
ZeroSourcesPanic ==
    [][\A p \in Procs :
         (ValidateRuns(p) /\ Len(call[p].srcs) = 0)
         => /\ call'[p].pc = "idle"
            /\ call'[p].res = Panic
            /\ call'[p].res \notin {Nil, ErrInvalidToken, errInconsistentTokenBetweenSources}
            /\ ~call'[p].chk
            /\ tokens' = tokens /\ mu' = mu]_vars

\* a Validate has panicked while the store holds a token
ZeroSourcesPanicWitness ==
    \E p \in Procs :
        /\ call[p].pc = "idle" /\ call[p].op = "Validate"
        /\ call[p].res = Panic
        /\ DOMAIN tokens # {}

\* C15: a failed Check has no effect. When Check returns ErrInvalidToken the
\* map after the call is the map before the call.
FailedCheckNoEffect ==
    [][\A p \in Procs :
         (CheckReturns(p) /\ call'[p].res = ErrInvalidToken) => tokens' = tokens]_vars

\* a Check has returned ErrInvalidToken for a token that is in the map, its
\* expire_at passed
FailedCheckNoEffectWitness ==
    \E p \in Procs :
        /\ call[p].pc = "idle" /\ call[p].op = "Check"
        /\ call[p].res = ErrInvalidToken
        /\ call[p].tok \in DOMAIN tokens
        /\ Unix(now) >= tokens[call[p].tok]

\* the goroutines between their Lock and their Unlock
InCritical ==
    {p \in Procs : call[p].pc \in {"get_held", "check_held"}}
        \cup (IF gc_pc = "sweep" THEN {"gc"} ELSE {})

\* at most one goroutine is in its critical section, and it is the holder of mu
MutualExclusion ==
    /\ Cardinality(InCritical) <= 1
    /\ InCritical = (IF mu = "" THEN {} ELSE {mu})

\* C16: lock discipline. At most one goroutine holds the mutex; Get's insert,
\* Check's lookup and a sweep's scan are each done by the holder of the mutex
\* in one critical section, and the map changes in no step but the holder's
\* last one before its Unlock.
LockDiscipline ==
    [][ /\ MutualExclusion /\ MutualExclusion'
        /\ \A p \in Procs :
             (call[p].pc \in {"get_held", "check_held"} /\ call'[p].pc = "idle")
             => (mu = p /\ mu' = "")
        /\ (gc_pc = "sweep" /\ gc_pc' # "sweep") => (mu = "gc" /\ mu' = "")
        /\ tokens' # tokens
           => /\ mu # "" /\ mu' = ""
              /\ \/ mu = "gc" /\ gc_pc = "sweep" /\ gc_pc' = "select"
                 \/ mu \in Procs /\ call[mu].pc = "get_held" /\ call'[mu].pc = "idle"
      ]_vars

\* a caller holds the mutex while the other caller and gc wait for it
LockDisciplineWitness ==
    \E p \in Procs : \E q \in Procs \ {p} :
        /\ mu = p
        /\ call[q].pc \in {"get_lock", "check_lock"}
        /\ gc_pc = "lock"

\* C17: irreversible token states. Check(t) returns nil only while t is
\* Issued: in the map, unexpired and never successfully checked; a token
\* that was consumed, has expired or was purged is never accepted again.
OnlyIssuedAccepted ==
    [][\A p \in Procs :
         (CheckReturns(p) /\ call'[p].res = Nil)
         => /\ call[p].tok \in DOMAIN tokens
            /\ Unix(now) < tokens[call[p].tok]
            /\ call[p].tok \notin checked]_vars

\* C18: the sweep removes only expired entries. A pass with clock reading s
\* deletes an entry exactly when Unix(s) >= expire_at, the test by which
\* Check rejects; what Check accepts at s stays, and no Check result, at s
\* or at the present clock reading, is changed by the pass.
SweepOnlyExpired ==
    [][(gc_pc = "sweep" /\ gc_pc' = "select")
       => /\ \A t \in DOMAIN tokens :
               /\ (t \notin DOMAIN tokens') <=> (Unix(current_time) >= tokens[t])
               /\ t \in DOMAIN tokens' => tokens'[t] = tokens[t]
          /\ DOMAIN tokens' \subseteq DOMAIN tokens
          /\ \A t \in Tokens : \A s \in {current_time, now} :
               CheckResult(tokens', t, s) = CheckResult(tokens, t, s)]_vars

\* a sweep has removed one stored token and kept another that Check accepts
SweepOnlyExpiredWitness ==
    /\ gc_pc = "select"
    /\ \E t \in DOMAIN issuedAt : t \notin DOMAIN tokens
    /\ \E t \in DOMAIN tokens : CheckResult(tokens, t, now) = Nil

\* C19: sweep task termination. After the context is cancelled gc leaves
\* its loop, and when it has returned it does not hold the mutex.
GcTerminates ==
    /\ cancelled ~> (gc_pc = "returned")
    /\ [](gc_pc = "returned" => mu # "gc")

\* gc has returned after the cancellation and a caller holds the mutex
GcTerminatesWitness ==
    /\ cancelled
    /\ gc_pc = "returned"
    /\ mu \in Procs

\* the handler has returned or panicked on goroutine p
Served(p) == call[p].mw /\ call[p].pc = "idle"

\* for the request served on p: one call of Validate, one call of handle_err,
\* with what Validate returned, and no call of next
HandledOnce(p) ==
    /\ call[p].vcalls = 1
    /\ call[p].herr = <<call[p].res>>
    /\ call[p].nexts = 0

====
